---- MODULE Spec2Model ----
(***************************************************************************)
(* vite-plugin-backend (src/src/index.ts): the dev-server lifecycle        *)
(* (hot file, exit and signal handlers, transform), the dev-server URL     *)
(* resolver, the config hook's merge and the plugin-config normalizer.     *)
(*                                                                         *)
(* JavaScript values are sequences of string tokens.  A string is the      *)
(* sequence of its pieces (characters where the code works on characters); *)
(* the non-string values undefined, null, true and false are the one-token *)
(* sequences below, which no string of the model equals.                   *)
(***************************************************************************)
EXTENDS Integers, Sequences, FiniteSets, TLC

Undefined == <<"#undefined">>
JsNull == <<"#null">>
JsTrue == <<"#true">>
JsFalse == <<"#false">>

\* typeof v === "string"
IsString(v) ==
    v \notin {Undefined, JsNull, JsTrue, JsFalse}

\* JavaScript truthiness of undefined, null, a boolean or a string
Truthy(v) ==
    v \notin {Undefined, JsNull, JsFalse, <<>>}

\* a ?? b
Nullish(a, b) ==
    IF a \in {Undefined, JsNull} THEN b ELSE a

\* String(v), as a template literal or String.prototype.replace renders v
ToStr(v) ==
    CASE v = Undefined -> <<"undefined">>
      [] v = JsNull -> <<"null">>
      [] v = JsTrue -> <<"true">>
      [] v = JsFalse -> <<"false">>
      [] OTHER -> v

(***************************************************************************)
(* Bounds                                                                  *)
(***************************************************************************)
MaxPlugins == 2
MaxConfigureServer == 2

Plugins == 1..MaxPlugins
Signals == {"SIGINT", "SIGTERM", "SIGHUP"}
Paths == {"public/hot", "static/hot"}

\* the content of a path that does not exist
NoFile == <<"#ENOENT">>

(***************************************************************************)
(* Dev-server URL resolver                                                 *)
(***************************************************************************)
\* server.hmr of the resolved config: undefined, true, false or an object
HmrValue(type, protocol, host, clientPort) ==
    [type |-> type, protocol |-> protocol, host |-> host, clientPort |-> clientPort]

HmrUndefined == HmrValue("undefined", Undefined, Undefined, Undefined)
HmrTrue == HmrValue("true", Undefined, Undefined, Undefined)
HmrFalse == HmrValue("false", Undefined, Undefined, Undefined)

\* AddressInfo.family: the strings "IPv4" / "IPv6", or the numbers 4 / 6
\* (written <<"4">>, <<"6">>) that Node 18.0 to 18.3 reports
isIpv6(address) ==
    \/ address.family = <<"IPv6">>
    \/ address.family = <<"6">>

\* the protocol with the server's TLS setting taking precedence over the HMR protocol
UrlProtocol_tlsFirst(server) ==
    IF Truthy(server.https)
    THEN <<"https">>
    ELSE IF server.hmr.type = "object" /\ server.hmr.protocol = <<"wss">>
         THEN <<"https">>
         ELSE <<"http">>

\* lines 251-254: const protocol = clientProtocol ?? serverProtocol
UrlProtocol(server) ==
    LET configHmrProtocol == IF server.hmr.type = "object" THEN server.hmr.protocol ELSE JsNull
        clientProtocol ==
            IF Truthy(configHmrProtocol)
            THEN (IF configHmrProtocol = <<"wss">> THEN <<"https">> ELSE <<"http">>)
            ELSE JsNull
        serverProtocol == IF Truthy(server.https) THEN <<"https">> ELSE <<"http">>
    IN  Nullish(clientProtocol, serverProtocol)

\* the host with server.host taking precedence over the HMR host
UrlHost_serverHostFirst(address, server) ==
    LET configHmrHost == IF server.hmr.type = "object" THEN server.hmr.host ELSE JsNull
        configHost == IF IsString(server.host) THEN server.host ELSE JsNull
        serverAddress ==
            IF isIpv6(address) THEN <<"[">> \o address.address \o <<"]">> ELSE address.address
    IN  Nullish(configHost, Nullish(configHmrHost, serverAddress))

\* lines 256-259: const host = configHmrHost ?? configHost ?? serverAddress
UrlHost(address, server) ==
    LET configHmrHost == IF server.hmr.type = "object" THEN server.hmr.host ELSE JsNull
        configHost == IF IsString(server.host) THEN server.host ELSE JsNull
        serverAddress ==
            IF isIpv6(address) THEN <<"[">> \o address.address \o <<"]">> ELSE address.address
    IN  Nullish(configHmrHost, Nullish(configHost, serverAddress))

\* the port with the HMR clientPort ignored
UrlPort_socketPort(address, server) ==
    address.port

\* lines 261-262: const port = configHmrClientPort ?? address.port
UrlPort(address, server) ==
    LET configHmrClientPort == IF server.hmr.type = "object" THEN server.hmr.clientPort ELSE JsNull
    IN  Nullish(configHmrClientPort, address.port)

resolveDevServerUrl(address, server) ==
    ToStr(UrlProtocol(server)) \o <<"://">> \o ToStr(UrlHost(address, server))
        \o <<":">> \o ToStr(UrlPort(address, server))

(***************************************************************************)
(* State                                                                   *)
(***************************************************************************)
VARIABLES
    plugins,            \* the plugin instances backend() has created in this process
    pluginConfig,       \* per instance: the resolved PluginConfig (hotFile, transformOnServe)
    command,            \* "serve" or "build": the command Vite was started with
    hasHttpServer,      \* FALSE in middleware mode (server.httpServer is null)
    appUrlEnv,          \* the value of APP_URL that loadEnv finds, or Undefined
    userConfig,         \* per instance: the closure variable userConfig
    resolvedConfig,     \* per instance: the closure variable resolvedConfig
    viteDevServerUrl,   \* per instance: the closure variable viteDevServerUrl
    configureCalls,     \* per instance: how many times configureServer has run
    listeners,          \* plugin ids of the pending once("listening") handlers, in order
    listening,          \* the http server has emitted "listening"
    boundAddress,       \* server.httpServer.address() once it listens
    hotWrites,          \* per instance: how many times the handler wrote the hot file
    exitHandlersBound,  \* the module-level flag
    exitHandlers,       \* plugin ids whose clean closure is on process 'exit', in order
    signalHandlers,     \* per signal: how many handlers the plugin has installed
    files,              \* the file system: path -> content or NoFile
    proc,               \* "running" or "terminated"
    termBy,             \* "none", "exit" or the signal that ended the process
    threw,              \* an exit handler raised
    lastTransform,      \* what the last transform call did
    middlewares,        \* the appUrl of each middleware the plugin has installed, in order
    lastRequest,        \* what the plugin's middlewares did with the last request
    urlCall,            \* a call of resolveDevServerUrl: its inputs and result
    configCall,         \* a call of the config hook: its inputs and result
    normCall,           \* a call of resolvePluginConfig: its input and result
    envCall             \* a call of resolveEnvironmentServerConfig: its input and result

lifecycleVars ==
    <<plugins, pluginConfig, command, hasHttpServer, userConfig, resolvedConfig,
      viteDevServerUrl, configureCalls, listeners, listening, boundAddress, hotWrites,
      exitHandlersBound, exitHandlers, signalHandlers, files, proc, termBy, threw,
      lastTransform, appUrlEnv, middlewares, lastRequest>>

setup == <<plugins, pluginConfig, command, hasHttpServer, appUrlEnv>>

pureVars == <<urlCall, configCall, normCall, envCall>>

vars == <<lifecycleVars, pureVars>>

(***************************************************************************)
(* Inputs of the lifecycle                                                 *)
(***************************************************************************)
\* the placeholder origin token "__backend_vite_placeholder__"
Placeholder == "__backend_vite_placeholder__"

\* userConfig.server?.origin: not set, the empty string, or an origin
Origins ==
    {Undefined, <<>>, <<"https", "://", "cdn.test", ":", "8443">>}

\* the server part of Vite's resolved config
ServerConfig(hmr, https, host) ==
    [hmr |-> hmr, https |-> https, host |-> host]

HttpsOptions == <<"{key,cert}">>

LifecycleServers ==
    { ServerConfig(HmrUndefined, Undefined, Undefined),
      ServerConfig(HmrValue("object", <<"wss">>, <<"example.test">>, <<"8080">>), Undefined, JsTrue),
      ServerConfig(HmrTrue, HttpsOptions, <<"0.0.0.0">>) }

AddressInfo(address, family, port) ==
    [address |-> address, family |-> family, port |-> port]

LifecycleAddresses ==
    { AddressInfo(<<"127.0.0.1">>, <<"IPv4">>, <<"5173">>),
      AddressInfo(<<"::1">>, <<"IPv6">>, <<"5173">>) }

\* pluginConfig.transformOnServe: the default (code) => code, or a user hook
TransformHooks == {"identity", "user"}

Codes ==
    { <<"a">>, <<Placeholder>>, <<"a", Placeholder, "b", Placeholder>> }

NoAddress == AddressInfo(Undefined, Undefined, Undefined)
NoConfig == [assigned |-> FALSE, origin |-> Undefined]
NoResolved ==
    [assigned |-> FALSE, command |-> "none",
     server |-> ServerConfig(HmrUndefined, Undefined, Undefined)]

\* APP_URL in the environment: not set, or the URL of the application
AppUrls ==
    {Undefined, <<"http", "://", "app.test">>}

\* the requests of the dev server
RequestUrls == {"/index.html", "/resources/js/app.js"}

NoRequest ==
    [url |-> "none", statusCode |-> 200, ends |-> 0, body |-> <<>>, nexts |-> 0,
     passedOn |-> FALSE]

NoTransform ==
    [plugin |-> 0, served |-> FALSE, code |-> <<>>, url |-> Undefined,
     hookCode |-> <<>>, result |-> Undefined]

(***************************************************************************)
(* Helpers of the lifecycle                                                *)
(***************************************************************************)
existsSync(fs, path) ==
    fs[path] # NoFile

writeFileSync(fs, path, data) ==
    [fs EXCEPT ![path] = data]

\* fs.rmSync without force: removing a missing path raises ENOENT
rmSync(fs, path) ==
    IF fs[path] = NoFile
    THEN [files |-> fs, threw |-> TRUE]
    ELSE [files |-> [fs EXCEPT ![path] = NoFile], threw |-> FALSE]

\* clean with the removal left out
clean_keepsFile(fs, hotFile) ==
    [files |-> fs, threw |-> FALSE]

\* clean without the existsSync guard
clean_noExistsCheck(fs, hotFile) ==
    rmSync(fs, hotFile)

\* the closure clean of one plugin instance
clean(fs, hotFile) ==
    IF existsSync(fs, hotFile)
    THEN rmSync(fs, hotFile)
    ELSE [files |-> fs, threw |-> FALSE]

\* process 'exit': every registered handler runs, in registration order
RECURSIVE EmitExit(_, _, _)
EmitExit(handlers, fs, cfg) ==
    IF handlers = <<>>
    THEN [files |-> fs, threw |-> FALSE]
    ELSE LET r == clean(fs, cfg[Head(handlers)].hotFile)
             rest == EmitExit(Tail(handlers), r.files, cfg)
         IN  [files |-> rest.files, threw |-> r.threw \/ rest.threw]

\* the handler with the user's server.origin ignored
OnListening_ignoresOrigin(i, address, st) ==
    LET url == resolveDevServerUrl(address, resolvedConfig[i].server)
    IN  [url |-> [st.url EXCEPT ![i] = url],
         files |-> writeFileSync(st.files, pluginConfig[i].hotFile, url),
         writes |-> [st.writes EXCEPT ![i] = @ + 1]]

\* the once("listening") handler of one plugin instance
OnListening(i, address, st) ==
    LET url ==
            IF Truthy(userConfig[i].origin)
            THEN userConfig[i].origin
            ELSE resolveDevServerUrl(address, resolvedConfig[i].server)
    IN  [url |-> [st.url EXCEPT ![i] = url],
         files |-> writeFileSync(st.files, pluginConfig[i].hotFile, url),
         writes |-> [st.writes EXCEPT ![i] = @ + 1]]

\* httpServer.emit("listening"): the pending handlers run in registration order
RECURSIVE EmitListening(_, _, _)
EmitListening(handlers, address, st) ==
    IF handlers = <<>>
    THEN st
    ELSE EmitListening(Tail(handlers), address, OnListening(Head(handlers), address, st))

\* code.replace without the g flag: the first placeholder only
RECURSIVE ReplacePlaceholder_firstOnly(_, _)
ReplacePlaceholder_firstOnly(code, url) ==
    IF code = <<>>
    THEN <<>>
    ELSE IF Head(code) = Placeholder
         THEN ToStr(url) \o Tail(code)
         ELSE <<Head(code)>> \o ReplacePlaceholder_firstOnly(Tail(code), url)

\* code.replace(/__backend_vite_placeholder__/g, url)
RECURSIVE ReplacePlaceholder(_, _)
ReplacePlaceholder(code, url) ==
    IF code = <<>>
    THEN <<>>
    ELSE (IF Head(code) = Placeholder THEN ToStr(url) ELSE <<Head(code)>>)
         \o ReplacePlaceholder(Tail(code), url)

\* pluginConfig.transformOnServe(code, url)
transformOnServe(hook, code, url) ==
    IF hook = "identity"
    THEN code
    ELSE <<"user(">> \o code \o <<",">> \o ToStr(url) \o <<")">>

\* dev-server-index.html, the page shipped with the plugin
DevServerIndexHtml ==
    <<"<a href=", "{{ APP_URL }}", ">", "{{ APP_URL }}", "</a>">>

\* html.replace(/{{ APP_URL }}/g, appUrl)
RECURSIVE ReplaceAppUrl(_, _)
ReplaceAppUrl(html, appUrl) ==
    IF html = <<>>
    THEN <<>>
    ELSE (IF Head(html) = "{{ APP_URL }}" THEN ToStr(appUrl) ELSE <<Head(html)>>)
         \o ReplaceAppUrl(Tail(html), appUrl)

\* res.end(body): the first call sends the body, a later one sends nothing more
ResEnd(res, body) ==
    [res EXCEPT !.ends = @ + 1, !.body = IF res.ends = 0 THEN body ELSE @]

\* the middleware of the post hook: (req, res, next) => { if ... ; next() }
Middleware(appUrl, res) ==
    LET answered ==
            IF res.url = "/index.html"
            THEN ResEnd([res EXCEPT !.statusCode = 404],
                        ReplaceAppUrl(DevServerIndexHtml, appUrl))
            ELSE res
    IN  [answered EXCEPT !.nexts = @ + 1]

\* connect's stack: a middleware runs when the one before it has called next(); the
\* request reaches what is installed after the plugin when the last one has called it
RECURSIVE RunMiddlewares(_, _)
RunMiddlewares(stack, res) ==
    IF stack = <<>>
    THEN [res EXCEPT !.passedOn = TRUE]
    ELSE LET after == Middleware(Head(stack), res)
         IN  IF after.nexts > res.nexts
             THEN RunMiddlewares(Tail(stack), after)
             ELSE after

(***************************************************************************)
(* The lifecycle: one process, the hooks Vite calls, signals and exit      *)
(***************************************************************************)
NoCall == [phase |-> "none"]

PluginConfigs ==
    [hotFile : Paths, transformOnServe : TransformHooks]

DefaultPluginConfig ==
    [hotFile |-> "public/hot", transformOnServe |-> "identity"]

\* the state once backend() has returned the plugin instances ps
LifecycleInit(ps) ==
    /\ plugins = ps
    /\ pluginConfig \in [Plugins -> PluginConfigs]
    /\ \A i \in Plugins \ ps : pluginConfig[i] = DefaultPluginConfig
    /\ command \in {"serve", "build"}
    /\ hasHttpServer \in BOOLEAN
    /\ appUrlEnv \in AppUrls
    /\ userConfig = [i \in Plugins |-> NoConfig]
    /\ resolvedConfig = [i \in Plugins |-> NoResolved]
    /\ viteDevServerUrl = [i \in Plugins |-> Undefined]
    /\ configureCalls = [i \in Plugins |-> 0]
    /\ listeners = <<>>
    /\ listening = FALSE
    /\ boundAddress = NoAddress
    /\ hotWrites = [i \in Plugins |-> 0]
    /\ exitHandlersBound = FALSE
    /\ exitHandlers = <<>>
    /\ signalHandlers = [s \in Signals |-> 0]
    /\ files = [p \in Paths |-> NoFile]
    /\ proc = "running"
    /\ termBy = "none"
    /\ threw = FALSE
    /\ lastTransform = NoTransform
    /\ middlewares = <<>>
    /\ lastRequest = NoRequest

\* no plugin instance: the lifecycle part of the state while a single function is called
LifecycleIdle ==
    /\ LifecycleInit({})
    /\ command = "serve"
    /\ hasHttpServer
    /\ appUrlEnv = Undefined

\* the config hook, as far as the lifecycle goes: userConfig = config
Config(i) ==
    /\ proc = "running"
    /\ ~userConfig[i].assigned
    /\ \E origin \in Origins :
          userConfig' = [userConfig EXCEPT ![i] = [assigned |-> TRUE, origin |-> origin]]
    /\ UNCHANGED <<setup, resolvedConfig,
                   viteDevServerUrl, configureCalls, listeners, listening, boundAddress, hotWrites,
                   exitHandlersBound, exitHandlers, signalHandlers, files, proc, termBy,
                   threw, lastTransform, middlewares, lastRequest, pureVars>>

ConfigResolved(i) ==
    /\ proc = "running"
    /\ userConfig[i].assigned
    /\ ~resolvedConfig[i].assigned
    /\ \E server \in LifecycleServers :
          resolvedConfig' = [resolvedConfig EXCEPT
              ![i] = [assigned |-> TRUE, command |-> command, server |-> server]]
    /\ UNCHANGED <<setup, userConfig,
                   viteDevServerUrl, configureCalls, listeners, listening, boundAddress, hotWrites,
                   exitHandlersBound, exitHandlers, signalHandlers, files, proc, termBy,
                   threw, lastTransform, middlewares, lastRequest, pureVars>>

\* configureServer without the exitHandlersBound guard: every call binds handlers
ConfigureServer_alwaysBinds(i) ==
    /\ proc = "running"
    /\ resolvedConfig[i].assigned
    /\ command = "serve"
    /\ configureCalls[i] < MaxConfigureServer
    /\ configureCalls' = [configureCalls EXCEPT ![i] = @ + 1]
    /\ listeners' = IF hasHttpServer THEN Append(listeners, i) ELSE listeners
    /\ middlewares' = Append(middlewares, Nullish(appUrlEnv, <<"undefined">>))
    /\ exitHandlers' = Append(exitHandlers, i)
    /\ signalHandlers' = [s \in Signals |-> signalHandlers[s] + 1]
    /\ exitHandlersBound' = TRUE
    /\ UNCHANGED <<setup, userConfig,
                   resolvedConfig, viteDevServerUrl, listening, boundAddress, hotWrites, files, proc,
                   termBy, threw, lastTransform, lastRequest, pureVars>>

\* configureServer, with the middleware of the post hook it returns, which Vite
\* installs once its own middlewares are in place
ConfigureServer(i) ==
    /\ proc = "running"
    /\ resolvedConfig[i].assigned
    /\ command = "serve"
    /\ configureCalls[i] < MaxConfigureServer
    /\ configureCalls' = [configureCalls EXCEPT ![i] = @ + 1]
    /\ listeners' = IF hasHttpServer THEN Append(listeners, i) ELSE listeners
    /\ middlewares' = Append(middlewares, Nullish(appUrlEnv, <<"undefined">>))
    /\ IF ~exitHandlersBound
       THEN /\ exitHandlers' = Append(exitHandlers, i)
            /\ signalHandlers' = [s \in Signals |-> signalHandlers[s] + 1]
            /\ exitHandlersBound' = TRUE
       ELSE UNCHANGED <<exitHandlers, signalHandlers, exitHandlersBound>>
    /\ UNCHANGED <<setup, userConfig,
                   resolvedConfig, viteDevServerUrl, listening, boundAddress, hotWrites, files, proc,
                   termBy, threw, lastTransform, lastRequest, pureVars>>

\* the http server starts accepting connections and emits "listening"
Listening ==
    /\ proc = "running"
    /\ hasHttpServer
    /\ ~listening
    /\ \E i \in plugins : configureCalls[i] > 0
    /\ \E address \in LifecycleAddresses :
          LET st == EmitListening(listeners, address,
                        [url |-> viteDevServerUrl, files |-> files, writes |-> hotWrites])
          IN  /\ boundAddress' = address
              /\ viteDevServerUrl' = st.url
              /\ files' = st.files
              /\ hotWrites' = st.writes
    /\ listening' = TRUE
    /\ listeners' = <<>>
    /\ UNCHANGED <<setup, userConfig,
                   resolvedConfig, configureCalls, exitHandlersBound, exitHandlers,
                   signalHandlers, proc, termBy, threw, lastTransform, middlewares, lastRequest, pureVars>>

Transform(i) ==
    /\ proc = "running"
    /\ resolvedConfig[i].assigned
    /\ \E code \in Codes :
          lastTransform' =
              IF resolvedConfig[i].command = "serve"
              THEN LET replaced == ReplacePlaceholder(code, viteDevServerUrl[i])
                   IN  [plugin |-> i, served |-> TRUE, code |-> code,
                        url |-> viteDevServerUrl[i], hookCode |-> replaced,
                        result |-> transformOnServe(pluginConfig[i].transformOnServe,
                                                    replaced, viteDevServerUrl[i])]
              ELSE [plugin |-> i, served |-> FALSE, code |-> code, url |-> Undefined,
                    hookCode |-> <<>>, result |-> Undefined]
    /\ UNCHANGED <<setup, userConfig,
                   resolvedConfig, viteDevServerUrl, configureCalls, listeners, listening, boundAddress,
                   hotWrites, exitHandlersBound, exitHandlers, signalHandlers, files, proc,
                   termBy, threw, middlewares, lastRequest, pureVars>>

\* a request of the dev server reaches the middlewares the plugin installed
Request(url) ==
    /\ proc = "running"
    /\ middlewares # <<>>
    /\ listening \/ ~hasHttpServer
    /\ lastRequest' = RunMiddlewares(middlewares, [NoRequest EXCEPT !.url = url])
    /\ UNCHANGED <<setup, userConfig,
                   resolvedConfig, viteDevServerUrl, configureCalls, listeners, listening, boundAddress,
                   hotWrites, exitHandlersBound, exitHandlers, signalHandlers, files, proc,
                   termBy, threw, lastTransform, middlewares, pureVars>>

\* process.exit(), or a normal end of the process: 'exit' is emitted, then it ends
ProcessExit(by) ==
    LET r == EmitExit(exitHandlers, files, pluginConfig)
    IN  /\ files' = r.files
        /\ threw' = r.threw
        /\ proc' = "terminated"
        /\ termBy' = by

Exit ==
    /\ proc = "running"
    /\ ProcessExit("exit")
    /\ UNCHANGED <<setup, userConfig,
                   resolvedConfig, viteDevServerUrl, configureCalls, listeners, listening, boundAddress,
                   hotWrites, exitHandlersBound, exitHandlers, signalHandlers,
                   lastTransform, middlewares, lastRequest, pureVars>>

\* a signal that ends the process at once, whether a handler is installed or not
Signal_noHandler(sig) ==
    /\ proc = "running"
    /\ proc' = "terminated"
    /\ termBy' = sig
    /\ UNCHANGED <<files, threw>>
    /\ UNCHANGED <<setup, userConfig,
                   resolvedConfig, viteDevServerUrl, configureCalls, listeners, listening, boundAddress,
                   hotWrites, exitHandlersBound, exitHandlers, signalHandlers,
                   lastTransform, middlewares, lastRequest, pureVars>>

\* a signal: the plugin's handler calls process.exit(); with no handler installed the
\* default disposition ends the process without an 'exit' event
Signal(sig) ==
    /\ proc = "running"
    /\ IF signalHandlers[sig] > 0
       THEN ProcessExit(sig)
       ELSE /\ proc' = "terminated"
            /\ termBy' = sig
            /\ UNCHANGED <<files, threw>>
    /\ UNCHANGED <<setup, userConfig,
                   resolvedConfig, viteDevServerUrl, configureCalls, listeners, listening, boundAddress,
                   hotWrites, exitHandlersBound, exitHandlers, signalHandlers,
                   lastTransform, middlewares, lastRequest, pureVars>>

Init ==
    /\ LifecycleInit({1})
    /\ urlCall = NoCall
    /\ configCall = NoCall
    /\ normCall = NoCall
    /\ envCall = NoCall

Next ==
    \/ \E i \in plugins : Config(i)
    \/ \E i \in plugins : ConfigResolved(i)
    \/ \E i \in plugins : ConfigureServer(i)
    \/ Listening
    \/ \E i \in plugins : Transform(i)
    \/ \E url \in RequestUrls : Request(url)
    \/ Exit
    \/ \E sig \in Signals : Signal(sig)

Spec == Init /\ [][Next]_vars

(***************************************************************************)
(* Claims about the lifecycle, checked under Spec (one plugin instance,    *)
(* one dev server)                                                         *)
(***************************************************************************)
\* C1: once the process has terminated by a normal exit, SIGINT, SIGTERM or SIGHUP,
\* the hot file of the plugin instance does not exist, whatever hooks ran before.
C1_HotFileGoneAfterTermination ==
    (proc = "terminated" /\ termBy \in {"exit"} \cup Signals)
        => \A i \in plugins : files[pluginConfig[i].hotFile] = NoFile

\* a signal ended a process whose listening handler had written the hot file
C1_Witness ==
    /\ proc = "terminated"
    /\ termBy \in Signals
    /\ \E i \in plugins : hotWrites[i] > 0

\* the DevServerUrl of instance i: the user's origin when one is set, otherwise the
\* URL resolved from the bound socket address
ExpectedDevServerUrl(i) ==
    IF userConfig[i].origin \notin {Undefined, <<>>}
    THEN userConfig[i].origin
    ELSE resolveDevServerUrl(boundAddress, resolvedConfig[i].server)

\* C2: once the listening event has been handled (and while the process runs), the hot
\* file exists and its whole content is the DevServerUrl that transform substitutes:
\* the user's server.origin verbatim if set, else the URL resolved from the address.
C2_HotFileHoldsDevServerUrl ==
    (listening /\ proc = "running")
        => \A i \in plugins :
              /\ existsSync(files, pluginConfig[i].hotFile)
              /\ files[pluginConfig[i].hotFile] = viteDevServerUrl[i]
              /\ viteDevServerUrl[i] = ExpectedDevServerUrl(i)

\* the server listens, the user forced an origin and the hot file has been written
C2_Witness ==
    /\ listening
    /\ proc = "running"
    /\ \E i \in plugins : hotWrites[i] > 0 /\ userConfig[i].origin \notin {Undefined, <<>>}

\* C3: teardown is idempotent: clean on a missing hot file changes nothing and does not
\* raise, and clean run twice leaves what clean run once leaves (no hot file, no error).
C3_TeardownIdempotent ==
    /\ ~threw
    /\ \A i \in plugins :
          LET hotFile == pluginConfig[i].hotFile
              once == clean(files, hotFile)
              twice == clean(once.files, hotFile)
          IN  /\ ~once.threw
              /\ ~twice.threw
              /\ ~existsSync(once.files, hotFile)
              /\ twice.files = once.files
              /\ (~existsSync(files, hotFile) => once.files = files)

\* the exit handler has run although the hot file was never written
C3_Witness ==
    /\ proc = "terminated"
    /\ exitHandlers # <<>>
    /\ \A i \in plugins : hotWrites[i] = 0

\* C4: whenever transform has run in serve mode, the listening transition had already
\* happened and viteDevServerUrl held the resolved URL (never an unset value).
C4_TransformSeesFinalUrl ==
    lastTransform.served => (listening /\ lastTransform.url # Undefined)

\* what code.replace(/__backend_vite_placeholder__/g, url) leaves of each code of Codes
ExpectedReplaced(code, url) ==
    CASE code = <<"a">> -> <<"a">>
      [] code = <<Placeholder>> -> url
      [] code = <<"a", Placeholder, "b", Placeholder>> -> <<"a">> \o url \o <<"b">> \o url

C14_SignalTeardownBeforeTermination ==
    [][(listening /\ proc = "running" /\ proc' = "terminated" /\ termBy' \in Signals)
          => /\ signalHandlers[termBy'] > 0
             /\ exitHandlers # <<>>
             /\ ~threw'
             /\ \A i \in plugins : files'[pluginConfig[i].hotFile] = NoFile]_vars

\* SIGTERM has ended a listening process whose hot file had been written
C14_Witness ==
    /\ listening
    /\ proc = "terminated"
    /\ termBy = "SIGTERM"
    /\ \E i \in plugins : hotWrites[i] > 0 /\ viteDevServerUrl[i] # Undefined

\* C15: in every run of one process the hot file of an instance is written at most
\* once, and exactly once when the server is listening, however many times
\* configureServer has run for the server.
C15_HotFileWrittenExactlyOnce ==
    \A i \in plugins :
        /\ hotWrites[i] <= 1
        /\ (listening /\ configureCalls[i] > 0) => hotWrites[i] = 1

\* C18: a request for /index.html is ended by the plugin exactly once, with status 404
\* and the fallback page, and is not handed to the middleware after the plugin's; any
\* other request is handed on without a response from the plugin.
C18_IndexHtmlAnsweredNotPassedOn ==
    /\ lastRequest.url = "/index.html" =>
          /\ lastRequest.ends = 1
          /\ lastRequest.statusCode = 404
          /\ lastRequest.body = ReplaceAppUrl(DevServerIndexHtml, middlewares[1])
          /\ ~lastRequest.passedOn
    /\ lastRequest.url = "/resources/js/app.js" =>
          /\ lastRequest.ends = 0
          /\ lastRequest.statusCode = 200
          /\ lastRequest.passedOn

(***************************************************************************)
(* resolveDevServerUrl on its own: SpecUrl calls it on every combination   *)
(* of the inputs below                                                     *)
(***************************************************************************)
\* config.server.hmr: undefined, a boolean, or an object whose protocol, host and
\* clientPort are each set or not (protocol may also be the empty string)
UrlHmrs ==
    {HmrUndefined, HmrTrue, HmrFalse}
        \cup { HmrValue("object", protocol, host, clientPort) :
                  protocol \in {Undefined, <<>>, <<"ws">>, <<"wss">>},
                  host \in {Undefined, <<"example.test">>},
                  clientPort \in {Undefined, <<"8080">>} }

\* config.server: https is undefined or an options object; host is undefined, true
\* or a host name
UrlServers ==
    { ServerConfig(hmr, https, host) :
          hmr \in UrlHmrs, https \in {Undefined, HttpsOptions},
          host \in {Undefined, JsTrue, <<"0.0.0.0">>} }

UrlAddresses ==
    { AddressInfo(<<"127.0.0.1">>, family, port) :
          family \in {<<"IPv4">>, <<"4">>}, port \in {<<"5173">>, <<"3000">>} }
        \cup { AddressInfo(<<"::1">>, family, port) :
                  family \in {<<"IPv6">>, <<"6">>}, port \in {<<"5173">>, <<"3000">>} }

InitUrl ==
    /\ LifecycleIdle
    /\ urlCall \in [phase : {"ready"}, address : UrlAddresses, server : UrlServers,
                     result : {Undefined}]
    /\ configCall = NoCall
    /\ normCall = NoCall
    /\ envCall = NoCall

ResolveUrl ==
    /\ urlCall.phase = "ready"
    /\ urlCall' = [urlCall EXCEPT
           !.phase = "done",
           !.result = resolveDevServerUrl(urlCall.address, urlCall.server)]
    /\ UNCHANGED <<lifecycleVars, configCall, normCall, envCall>>

NextUrl == ResolveUrl

SpecUrl == InitUrl /\ [][NextUrl]_vars

\* the parts of a URL protocol://host:port
ProtocolOf(url) == <<url[1]>>
HostOf(url) == SubSeq(url, 3, Len(url) - 2)
PortOf(url) == <<url[Len(url)]>>

HmrIsObject(server) == server.hmr.type = "object"

\* C5: the protocol is https when the HMR object carries protocol wss; otherwise http
\* when the HMR object specifies a protocol; otherwise https if server.https is
\* enabled and http if not.  127.0.0.1:5173, IPv4, no overrides, no TLS gives
\* http://127.0.0.1:5173.
C5_ProtocolPrecedence ==
    urlCall.phase = "done" =>
        LET server == urlCall.server
            address == urlCall.address
            hmrProtocol == IF HmrIsObject(server) THEN server.hmr.protocol ELSE Undefined
        IN  /\ urlCall.result[2] = "://"
            /\ ProtocolOf(urlCall.result) =
                   IF hmrProtocol = <<"wss">> THEN <<"https">>
                   ELSE IF hmrProtocol \notin {Undefined, <<>>} THEN <<"http">>
                   ELSE IF server.https # Undefined THEN <<"https">>
                   ELSE <<"http">>
            /\ ( /\ address = AddressInfo(<<"127.0.0.1">>, <<"IPv4">>, <<"5173">>)
                 /\ server \in { ServerConfig(hmr, Undefined, host) :
                                    hmr \in {HmrUndefined, HmrTrue, HmrFalse},
                                    host \in {Undefined, JsTrue} } )
                => urlCall.result = <<"http", "://", "127.0.0.1", ":", "5173">>

\* an HMR protocol other than wss decided for http although TLS is enabled
C5_Witness ==
    /\ urlCall.phase = "done"
    /\ HmrIsObject(urlCall.server)
    /\ urlCall.server.hmr.protocol = <<"ws">>
    /\ urlCall.server.https = HttpsOptions
    /\ ProtocolOf(urlCall.result) = <<"http">>

\* C6: the host is the HMR host if set; otherwise server.host if it is a host name;
\* otherwise the socket address, in square brackets exactly when the family is IPv6.
\* ::1, port 5173, no overrides, no TLS gives http://[::1]:5173.
C6_HostPrecedence ==
    urlCall.phase = "done" =>
        LET server == urlCall.server
            address == urlCall.address
            hmrHost == IF HmrIsObject(server) THEN server.hmr.host ELSE Undefined
        IN  /\ HostOf(urlCall.result) =
                   IF hmrHost # Undefined THEN hmrHost
                   ELSE IF server.host \notin {Undefined, JsTrue} THEN server.host
                   ELSE IF address.family \in {<<"IPv6">>, <<"6">>}
                        THEN <<"[">> \o address.address \o <<"]">>
                        ELSE address.address
            /\ ( /\ address = AddressInfo(<<"::1">>, <<"IPv6">>, <<"5173">>)
                 /\ server \in { ServerConfig(hmr, Undefined, host) :
                                    hmr \in {HmrUndefined, HmrTrue, HmrFalse},
                                    host \in {Undefined, JsTrue} } )
                => urlCall.result = <<"http", "://", "[", "::1", "]", ":", "5173">>

\* an IPv6 socket address was used, bracketed, because no host override is set
C6_Witness ==
    /\ urlCall.phase = "done"
    /\ urlCall.address.family = <<"IPv6">>
    /\ HostOf(urlCall.result) = <<"[", "::1", "]">>

\* C7: the port is the HMR clientPort whenever it is set and the socket port otherwise;
\* with an HMR host and an HMR clientPort both set, host and port of the URL are those
\* two values whatever the socket address, port, family and server.host are.
C7_PortPrecedence ==
    urlCall.phase = "done" =>
        LET server == urlCall.server
            address == urlCall.address
            clientPort == IF HmrIsObject(server) THEN server.hmr.clientPort ELSE Undefined
            hmrHost == IF HmrIsObject(server) THEN server.hmr.host ELSE Undefined
        IN  /\ PortOf(urlCall.result) =
                   IF clientPort # Undefined THEN clientPort ELSE address.port
            /\ (clientPort # Undefined /\ hmrHost # Undefined)
                  => SubSeq(urlCall.result, 2, Len(urlCall.result))
                        = <<"://">> \o hmrHost \o <<":">> \o clientPort

\* HMR host and clientPort are both set while the socket is [::1]:5173 and
\* server.host is a host name
C7_Witness ==
    /\ urlCall.phase = "done"
    /\ HmrIsObject(urlCall.server)
    /\ urlCall.server.hmr.host = <<"example.test">>
    /\ urlCall.server.hmr.clientPort = <<"8080">>
    /\ urlCall.server.host = <<"0.0.0.0">>
    /\ urlCall.address.address = <<"::1">>
    /\ SubSeq(urlCall.result, 2, Len(urlCall.result)) = <<"://", "example.test", ":", "8080">>

(***************************************************************************)
(* The config hook on its own: SpecConfig calls it on every combination of *)
(* user config, command and environment below                              *)
(***************************************************************************)
\* the certificate files that exist on disk
CertFiles == {<<"key.pem">>, <<"cert.pem">>}

\* fs.existsSync / fs.readFileSync on the certificate paths
certExists(path) ==
    path \in CertFiles

\* new URL(text).host: the host, with the port unless it is the scheme's default;
\* Undefined stands for the TypeError of an invalid URL
DefaultPort(scheme) ==
    IF scheme = "https" THEN "443" ELSE "80"

UrlHostOf(text) ==
    IF Len(text) = 3 /\ text[2] = "://"
    THEN <<text[3]>>
    ELSE IF Len(text) = 5 /\ text[2] = "://" /\ text[4] = ":"
         THEN (IF text[5] = DefaultPort(text[1]) THEN <<text[3]>> ELSE SubSeq(text, 3, 5))
         ELSE IF text = <<"file", "://">>
              THEN <<>>
              ELSE Undefined

resolveHostFromEnv(env) ==
    UrlHostOf(ToStr(env.APP_URL))

NoServerConfig ==
    [threw |-> FALSE, present |-> FALSE, host |-> Undefined, hmrHost |-> Undefined,
     https |-> Undefined]

ServerConfigError ==
    [threw |-> TRUE, present |-> FALSE, host |-> Undefined, hmrHost |-> Undefined,
     https |-> Undefined]

\* the first guard with || in place of &&: one variable alone counts as none
resolveEnvironmentServerConfig_eitherMissing(env) ==
    IF ~Truthy(env.VITE_DEV_SERVER_KEY) \/ ~Truthy(env.VITE_DEV_SERVER_CERT)
    THEN NoServerConfig
    ELSE IF ~certExists(env.VITE_DEV_SERVER_KEY) \/ ~certExists(env.VITE_DEV_SERVER_CERT)
         THEN ServerConfigError
         ELSE LET host == resolveHostFromEnv(env)
              IN  IF ~Truthy(host)
                  THEN ServerConfigError
                  ELSE [threw |-> FALSE, present |-> TRUE, host |-> host, hmrHost |-> host,
                        https |-> <<"{">> \o env.VITE_DEV_SERVER_KEY \o <<",">>
                                     \o env.VITE_DEV_SERVER_CERT \o <<"}">>]

resolveEnvironmentServerConfig(env) ==
    IF ~Truthy(env.VITE_DEV_SERVER_KEY) /\ ~Truthy(env.VITE_DEV_SERVER_CERT)
    THEN NoServerConfig
    ELSE IF ~certExists(env.VITE_DEV_SERVER_KEY) \/ ~certExists(env.VITE_DEV_SERVER_CERT)
         THEN ServerConfigError
         ELSE LET host == resolveHostFromEnv(env)
              IN  IF ~Truthy(host)
                  THEN ServerConfigError
                  ELSE [threw |-> FALSE, present |-> TRUE, host |-> host, hmrHost |-> host,
                        https |-> <<"{">> \o env.VITE_DEV_SERVER_KEY \o <<",">>
                                     \o env.VITE_DEV_SERVER_CERT \o <<"}">>]

\* path.normalize on a path without dot segments: runs of slashes collapse
RECURSIVE CollapseSlashes(_)
CollapseSlashes(path) ==
    IF Len(path) < 2
    THEN path
    ELSE IF path[1] = "/" /\ path[2] = "/"
         THEN CollapseSlashes(Tail(path))
         ELSE <<path[1]>> \o CollapseSlashes(Tail(path))

\* path.join(a, b) for non-empty a and b
pathJoin(a, b) ==
    CollapseSlashes(a \o <<"/">> \o b)

\* assetUrl.endsWith("/")
endsWithSlash(text) ==
    text # <<>> /\ text[Len(text)] = "/"

resolveBase(config, assetUrl) ==
    assetUrl \o (IF ~endsWithSlash(assetUrl) THEN <<"/">> ELSE <<>>)
        \o config.buildDirectory \o <<"/">>

resolveInput(config) ==
    config.input

resolveOutDir(config) ==
    pathJoin(config.publicDirectory, config.buildDirectory)

\* { ...serverConfig.hmr, ...(userHmr === true ? {} : userHmr) }: a key of the user's
\* object replaces the same key of the environment's
MergeHmr(envHost, userHmr) ==
    IF userHmr.type = "object"
    THEN HmrValue("object", userHmr.protocol, Nullish(userHmr.host, envHost),
                  userHmr.clientPort)
    ELSE HmrValue("object", Undefined, envHost, Undefined)

\* the server part with the environment's values taking precedence over the user's
ConfigServer_envWins(user, serverConfig) ==
    IF serverConfig.present
    THEN [origin |-> Nullish(user.origin, <<Placeholder>>),
          host |-> Nullish(serverConfig.host, user.host),
          hmr |-> IF user.hmr.type = "false" THEN HmrFalse
                  ELSE MergeHmr(serverConfig.hmrHost, user.hmr),
          https |-> Nullish(serverConfig.https, user.https)]
    ELSE [origin |-> Nullish(user.origin, <<Placeholder>>), host |-> Undefined,
          hmr |-> HmrUndefined, https |-> Undefined]

\* lines 99-114: the server part of the returned config; without an environment
\* server config the keys host, hmr and https are not in the object
ConfigServer(user, serverConfig) ==
    IF serverConfig.present
    THEN [origin |-> Nullish(user.origin, <<Placeholder>>),
          host |-> Nullish(user.host, serverConfig.host),
          hmr |-> IF user.hmr.type = "false" THEN HmrFalse
                  ELSE MergeHmr(serverConfig.hmrHost, user.hmr),
          https |-> Nullish(user.https, serverConfig.https)]
    ELSE [origin |-> Nullish(user.origin, <<Placeholder>>), host |-> Undefined,
          hmr |-> HmrUndefined, https |-> Undefined]

\* lines 91-98: the build part of the returned config
ConfigBuild(user, pc) ==
    [manifest |-> Nullish(user.manifest, <<"manifest.json">>),
     outDir |-> Nullish(user.outDir, resolveOutDir(pc)),
     input |-> Nullish(user.input, resolveInput(pc)),
     assetsInlineLimit |-> Nullish(user.assetsInlineLimit, <<"0">>)]

\* lines 115-121: a copy of the user's alias array, or of the alias object
ConfigAlias(user) ==
    IF user.alias = Undefined THEN <<"{", "}">> ELSE user.alias

NoReturn == [threw |-> TRUE]

\* the config hook: what it returns, or that it threw
config(user, cmd, env, pc) ==
    LET assetUrl == Nullish(env.ASSET_URL, <<>>)
        serverConfig ==
            IF cmd = "serve" THEN resolveEnvironmentServerConfig(env) ELSE NoServerConfig
    IN  IF serverConfig.threw
        THEN NoReturn
        ELSE [threw |-> FALSE,
              base |-> Nullish(user.base,
                               IF cmd = "build" THEN resolveBase(pc, assetUrl) ELSE <<>>),
              publicDir |-> Nullish(user.publicDir, JsFalse),
              build |-> ConfigBuild(user, pc),
              server |-> ConfigServer(user, serverConfig),
              alias |-> ConfigAlias(user)]

\* the user's Vite config, as far as the hook reads it
UserConfigs ==
    [base : {Undefined, <<>>, <<"/custom/">>},
     publicDir : {Undefined, <<"static">>},
     manifest : {Undefined, JsFalse},
     outDir : {Undefined, <<"dist">>},
     input : {Undefined, <<"user.js">>},
     assetsInlineLimit : {Undefined, <<"4096">>},
     origin : {Undefined, <<"http", "://", "origin.test", ":", "9000">>},
     host : {Undefined, JsTrue, <<"0.0.0.0">>},
     hmr : {HmrUndefined, HmrTrue, HmrFalse,
            HmrValue("object", Undefined, Undefined, Undefined),
            HmrValue("object", <<"ws">>, <<"hmr.test">>, Undefined)},
     https : {Undefined, <<"{userKey,userCert}">>},
     alias : {Undefined, <<"[", "@", "]">>}]

\* loadEnv(mode, envDir, ""): no variable set; an asset URL; a complete TLS setup; a
\* key without a certificate; a TLS setup without APP_URL
NoEnv ==
    [VITE_DEV_SERVER_KEY |-> Undefined, VITE_DEV_SERVER_CERT |-> Undefined,
     APP_URL |-> Undefined, ASSET_URL |-> Undefined]

ConfigEnvs ==
    { NoEnv,
      [NoEnv EXCEPT !.ASSET_URL = <<"https://cdn.test">>],
      [NoEnv EXCEPT !.VITE_DEV_SERVER_KEY = <<"key.pem">>,
                    !.VITE_DEV_SERVER_CERT = <<"cert.pem">>,
                    !.APP_URL = <<"https", "://", "app.test">>],
      [NoEnv EXCEPT !.VITE_DEV_SERVER_KEY = <<"key.pem">>],
      [NoEnv EXCEPT !.VITE_DEV_SERVER_KEY = <<"key.pem">>,
                    !.VITE_DEV_SERVER_CERT = <<"cert.pem">>] }

\* the normalized plugin config of backend("resources/js/app.js")
ConfigPluginConfig ==
    [publicDirectory |-> <<"public">>, buildDirectory |-> <<"build">>,
     input |-> <<"resources/js/app.js">>]

InitConfig ==
    /\ LifecycleIdle
    /\ configCall \in [phase : {"ready"}, user : UserConfigs, command : {"serve", "build"},
                        env : ConfigEnvs, result : {NoReturn}]
    /\ urlCall = NoCall
    /\ normCall = NoCall
    /\ envCall = NoCall

CallConfig ==
    /\ configCall.phase = "ready"
    /\ configCall' = [configCall EXCEPT
           !.phase = "done",
           !.result = config(configCall.user, configCall.command, configCall.env,
                             ConfigPluginConfig)]
    /\ UNCHANGED <<lifecycleVars, urlCall, normCall, envCall>>

NextConfig == CallConfig

SpecConfig == InitConfig /\ [][NextConfig]_vars

\* the hook returned a config
ConfigReturned ==
    configCall.phase = "done" /\ ~configCall.result.threw

\* an environment TLS override applies to the call
EnvOverride ==
    /\ configCall.command = "serve"
    /\ configCall.env.VITE_DEV_SERVER_KEY # Undefined
    /\ configCall.env.VITE_DEV_SERVER_CERT # Undefined

\* the fields the user set, other than the three server fields of the TLS override,
\* hold the user's value in the returned config
UserScalarsKept ==
    LET user == configCall.user
        out == configCall.result
    IN  /\ user.base # Undefined => out.base = user.base
        /\ user.publicDir # Undefined => out.publicDir = user.publicDir
        /\ user.manifest # Undefined => out.build.manifest = user.manifest
        /\ user.outDir # Undefined => out.build.outDir = user.outDir
        /\ user.input # Undefined => out.build.input = user.input
        /\ user.assetsInlineLimit # Undefined
              => out.build.assetsInlineLimit = user.assetsInlineLimit
        /\ user.origin # Undefined => out.server.origin = user.origin

\* an HMR object of the user is merged with the user's fields winning
UserHmrObjectWins ==
    LET user == configCall.user
        out == configCall.result
    IN  user.hmr.type = "object"
            => /\ out.server.hmr.type = "object"
               /\ user.hmr.protocol # Undefined => out.server.hmr.protocol = user.hmr.protocol
               /\ user.hmr.host # Undefined => out.server.hmr.host = user.hmr.host
               /\ user.hmr.clientPort # Undefined
                     => out.server.hmr.clientPort = user.hmr.clientPort

\* C8 as stated: every field the user sets holds exactly the user's value in the
\* returned config, in serve and build mode, with or without an environment TLS
\* override (hmr false stays false, an HMR object is merged with the user's fields
\* winning).
C8_UserValuesNeverOverwritten ==
    ConfigReturned =>
        LET user == configCall.user
            out == configCall.result
        IN  /\ UserScalarsKept
            /\ user.host # Undefined => out.server.host = user.host
            /\ user.https # Undefined => out.server.https = user.https
            /\ user.hmr.type \in {"true", "false"} => out.server.hmr = user.hmr
            /\ UserHmrObjectWins

\* C8 as amended: base, publicDir, the build fields and server.origin hold the user's
\* value whenever the user sets them.  server.host, server.hmr and server.https are
\* only in the returned config when an environment TLS override applies; then host and
\* https hold the user's value if set, hmr false stays false, an HMR object is merged
\* with the user's fields winning, and hmr true is replaced by the environment's
\* { host }.  Without the override the three keys are missing from the returned
\* config.
C8_UserValuesKeptOrOmitted ==
    ConfigReturned =>
        LET user == configCall.user
            out == configCall.result
        IN  /\ UserScalarsKept
            /\ EnvOverride =>
                  /\ user.host # Undefined => out.server.host = user.host
                  /\ user.https # Undefined => out.server.https = user.https
                  /\ user.hmr.type = "false" => out.server.hmr = HmrFalse
                  /\ UserHmrObjectWins
                  /\ user.hmr.type = "true"
                        => out.server.hmr
                             = HmrValue("object", Undefined, <<"app.test">>, Undefined)
            /\ ~EnvOverride =>
                  /\ out.server.host = Undefined
                  /\ out.server.https = Undefined
                  /\ out.server.hmr = HmrUndefined

\* with a TLS override in the environment, the user's base, host, https and HMR host
\* came back in place of the computed ones
C8_Witness ==
    /\ ConfigReturned
    /\ EnvOverride
    /\ configCall.user.base = <<>>
    /\ configCall.user.host = <<"0.0.0.0">>
    /\ configCall.user.https = <<"{userKey,userCert}">>
    /\ configCall.user.hmr.host = <<"hmr.test">>
    /\ configCall.result.base = <<>>
    /\ configCall.result.server.host = <<"0.0.0.0">>
    /\ configCall.result.server.https = <<"{userKey,userCert}">>
    /\ configCall.result.server.hmr.host = <<"hmr.test">>

(***************************************************************************)
(* resolvePluginConfig on its own: SpecNorm calls it on a path, a list of  *)
(* paths and on option objects.  A directory option is a sequence of       *)
(* pieces: a slash, a space, or a run of letters.                          *)
(***************************************************************************)
MaxDirLen == 3

DirPieces == {"/", " ", "public", "build"}

RECURSIVE trimStart(_)
trimStart(text) ==
    IF text # <<>> /\ Head(text) = " " THEN trimStart(Tail(text)) ELSE text

RECURSIVE trimEnd(_)
trimEnd(text) ==
    IF text # <<>> /\ text[Len(text)] = " "
    THEN trimEnd(SubSeq(text, 1, Len(text) - 1))
    ELSE text

\* String.prototype.trim
trim(text) ==
    trimEnd(trimStart(text))

\* replace(/^\//, ""): only the first leading slash goes
stripLeadingSlashes_firstOnly(text) ==
    IF text # <<>> /\ Head(text) = "/" THEN Tail(text) ELSE text

\* replace(/^\/+/, "")
RECURSIVE stripLeadingSlashes(_)
stripLeadingSlashes(text) ==
    IF text # <<>> /\ Head(text) = "/" THEN stripLeadingSlashes(Tail(text)) ELSE text

\* replace(/\/+$/, "")
RECURSIVE stripTrailingSlashes(_)
stripTrailingSlashes(text) ==
    IF text # <<>> /\ text[Len(text)] = "/"
    THEN stripTrailingSlashes(SubSeq(text, 1, Len(text) - 1))
    ELSE text

DefaultTransform == <<"(code) => code">>

\* the option object { input: config } built from a path or a list of paths
InputOnly(input) ==
    [kind |-> "object", name |-> Undefined, input |-> input,
     publicDirectory |-> Undefined, buildDirectory |-> Undefined, hotFile |-> Undefined,
     detectTls |-> Undefined, transformOnServe |-> Undefined]

\* what a call left behind: it threw or returned value; after is the caller's
\* argument once the call is over
Threw(after) ==
    [threw |-> TRUE, value |-> InputOnly(Undefined), after |-> after]

resolvePluginConfig(arg) ==
    IF arg.kind = "undefined"
    THEN Threw(arg)
    ELSE LET passed == arg.kind = "object"
             cfg == IF passed THEN arg ELSE InputOnly(arg.input)
             publicDirectory ==
                 IF IsString(cfg.publicDirectory)
                 THEN stripLeadingSlashes(trim(cfg.publicDirectory))
                 ELSE cfg.publicDirectory
             buildDirectory ==
                 IF IsString(cfg.buildDirectory)
                 THEN stripTrailingSlashes(stripLeadingSlashes(trim(cfg.buildDirectory)))
                 ELSE cfg.buildDirectory
             afterPublic == [cfg EXCEPT !.publicDirectory = publicDirectory]
             afterBuild == [afterPublic EXCEPT !.buildDirectory = buildDirectory]
         IN  IF cfg.input = Undefined
             THEN Threw(arg)
             ELSE IF publicDirectory = <<>>
             THEN Threw(IF passed THEN afterPublic ELSE arg)
             ELSE IF buildDirectory = <<>>
             THEN Threw(IF passed THEN afterBuild ELSE arg)
             ELSE [threw |-> FALSE,
                   value |->
                       [kind |-> "object",
                        name |-> Nullish(cfg.name, <<"backend">>),
                        input |-> cfg.input,
                        publicDirectory |-> Nullish(publicDirectory, <<"public">>),
                        buildDirectory |-> Nullish(buildDirectory, <<"build">>),
                        hotFile |-> Nullish(cfg.hotFile,
                                            pathJoin(Nullish(publicDirectory, <<"public">>),
                                                     <<"hot">>)),
                        detectTls |-> Nullish(cfg.detectTls, JsNull),
                        transformOnServe |->
                            Nullish(cfg.transformOnServe, DefaultTransform)],
                   after |-> IF passed THEN afterBuild ELSE arg]

\* the values of a directory option: every string of at most MaxDirLen pieces
DirStrings ==
    UNION { [1..n -> DirPieces] : n \in 0..MaxDirLen }

\* the arguments of backend(): nothing, a path, a list of paths, an object without
\* input, and objects with input, any directory options, with or without hotFile and
\* with or without the other options
NormArgs ==
    { [InputOnly(Undefined) EXCEPT !.kind = "undefined"],
      [InputOnly(<<"app.js">>) EXCEPT !.kind = "string"],
      [InputOnly(<<"[", "a.js", "b.js", "]">>) EXCEPT !.kind = "array"],
      InputOnly(Undefined) }
        \cup { [kind |-> "object", name |-> others[1], input |-> <<"app.js">>,
                 publicDirectory |-> publicDirectory, buildDirectory |-> buildDirectory,
                 hotFile |-> hotFile, detectTls |-> others[2],
                 transformOnServe |-> others[3]] :
                  publicDirectory \in DirStrings \cup {Undefined},
                  buildDirectory \in DirStrings \cup {Undefined},
                  hotFile \in {Undefined, <<"custom", "/", "hot">>},
                  others \in { <<Undefined, Undefined, Undefined>>,
                               <<<<"assets">>, JsTrue, <<"userHook">>>> } }

InitNorm ==
    /\ LifecycleIdle
    /\ normCall \in [phase : {"ready"}, arg : NormArgs, result : {Threw(InputOnly(Undefined))}]
    /\ urlCall = NoCall
    /\ configCall = NoCall
    /\ envCall = NoCall

CallResolvePluginConfig ==
    /\ normCall.phase = "ready"
    /\ normCall' = [normCall EXCEPT
           !.phase = "done",
           !.result = resolvePluginConfig(normCall.arg)]
    /\ UNCHANGED <<lifecycleVars, urlCall, configCall, envCall>>

NextNorm == CallResolvePluginConfig

SpecNorm == InitNorm /\ [][NextNorm]_vars

NormReturned ==
    normCall.phase = "done" /\ ~normCall.result.threw

\* C9: for every input resolvePluginConfig accepts, applying it to its own output
\* succeeds and returns a configuration equal to that output.
C9_NormalizationIdempotent ==
    NormReturned =>
        LET again == resolvePluginConfig(normCall.result.value)
        IN  /\ ~again.threw
            /\ again.value = normCall.result.value

\* spaces, then slashes, then spaces: the strings that trim() and the removal of the
\* leading slashes reduce to the empty string
ReducesToEmpty(text) ==
    \E i \in 0..Len(text) : \E j \in i..Len(text) :
        \A k \in 1..Len(text) :
            text[k] = (IF k > i /\ k <= j THEN "/" ELSE " ")

\* C10 as stated: the slashes around both directory options are removed, '/public/'
\* becoming 'public' and '/build/' becoming 'build', and an option that reduces to the
\* empty string makes the resolution fail.
C10_SlashesRemovedAroundBoth ==
    normCall.phase = "done" =>
        LET arg == normCall.arg
            out == normCall.result
        IN  /\ (~out.threw /\ arg.publicDirectory = <<"/", "public", "/">>)
                  => out.value.publicDirectory = <<"public">>
            /\ (~out.threw /\ arg.buildDirectory = <<"/", "build", "/">>)
                  => out.value.buildDirectory = <<"build">>
            /\ ( \/ (IsString(arg.publicDirectory) /\ ReducesToEmpty(arg.publicDirectory))
                 \/ (IsString(arg.buildDirectory) /\ ReducesToEmpty(arg.buildDirectory)) )
                  => out.threw

\* C10 as amended: the leading slashes of publicDirectory and the leading and trailing
\* slashes of buildDirectory are removed, after trimming: '/public/' becomes 'public/'
\* and '/build/' becomes 'build'; the returned publicDirectory never starts with a
\* slash, the returned buildDirectory neither starts nor ends with one, and an option
\* that reduces to the empty string makes the resolution fail.
C10_LeadingAndBuildSlashesRemoved ==
    normCall.phase = "done" =>
        LET arg == normCall.arg
            out == normCall.result
        IN  /\ (~out.threw /\ arg.publicDirectory = <<"/", "public", "/">>)
                  => out.value.publicDirectory = <<"public", "/">>
            /\ (~out.threw /\ arg.buildDirectory = <<"/", "build", "/">>)
                  => out.value.buildDirectory = <<"build">>
            /\ ~out.threw =>
                  /\ out.value.publicDirectory # <<>>
                  /\ out.value.buildDirectory # <<>>
                  /\ Head(out.value.publicDirectory) # "/"
                  /\ Head(out.value.buildDirectory) # "/"
                  /\ out.value.buildDirectory[Len(out.value.buildDirectory)] # "/"
            /\ ( \/ (IsString(arg.publicDirectory) /\ ReducesToEmpty(arg.publicDirectory))
                 \/ (IsString(arg.buildDirectory) /\ ReducesToEmpty(arg.buildDirectory)) )
                  => out.threw

\* '/public/' and '/build/' were normalized in one call
C10_Witness ==
    /\ NormReturned
    /\ normCall.arg.publicDirectory = <<"/", "public", "/">>
    /\ normCall.arg.buildDirectory = <<"/", "build", "/">>
    /\ normCall.result.value.publicDirectory = <<"public", "/">>
    /\ normCall.result.value.buildDirectory = <<"build">>

\* C17: in every configuration resolvePluginConfig returns, publicDirectory and
\* buildDirectory are non-empty once trimmed of whitespace.
C17_DirectoriesNonEmptyAfterTrim ==
    NormReturned =>
        /\ trim(normCall.result.value.publicDirectory) # <<>>
        /\ trim(normCall.result.value.buildDirectory) # <<>>

\* C19: resolvePluginConfig leaves the object the caller passed as it was, whether it
\* returns or throws: publicDirectory and buildDirectory hold the values they had
\* before the call.
C19_CallerConfigUnchanged ==
    normCall.phase = "done" =>
        /\ normCall.result.after.publicDirectory = normCall.arg.publicDirectory
        /\ normCall.result.after.buildDirectory = normCall.arg.buildDirectory

(***************************************************************************)
(* resolveEnvironmentServerConfig on its own: SpecEnv calls it on every    *)
(* combination of the three environment variables below                    *)
(***************************************************************************)
\* a TLS variable: not set, set to nothing, a file that exists, a file that does not
EnvKeys == {Undefined, <<>>, <<"key.pem">>, <<"missing.pem">>}
EnvCerts == {Undefined, <<>>, <<"cert.pem">>, <<"missing.pem">>}

\* APP_URL: not set, not a URL, with and without a port, with an empty host
EnvAppUrls ==
    { Undefined,
      <<"app.test">>,
      <<"http", "://", "app.test">>,
      <<"https", "://", "app.test", ":", "8000">>,
      <<"https", "://", "app.test", ":", "443">>,
      <<"file", "://">> }

Envs ==
    [VITE_DEV_SERVER_KEY : EnvKeys, VITE_DEV_SERVER_CERT : EnvCerts,
     APP_URL : EnvAppUrls, ASSET_URL : {Undefined}]

InitEnv ==
    /\ LifecycleIdle
    /\ envCall \in [phase : {"ready"}, env : Envs, result : {NoServerConfig}]
    /\ urlCall = NoCall
    /\ configCall = NoCall
    /\ normCall = NoCall

CallResolveEnvironmentServerConfig ==
    /\ envCall.phase = "ready"
    /\ envCall' = [envCall EXCEPT !.phase = "returned",
                                  !.result = resolveEnvironmentServerConfig(envCall.env)]
    /\ UNCHANGED <<lifecycleVars, urlCall, configCall, normCall>>

NextEnv == CallResolveEnvironmentServerConfig

SpecEnv == InitEnv /\ [][NextEnv]_vars

EnvReturned == envCall.phase = "returned"

KeySet == Truthy(envCall.env.VITE_DEV_SERVER_KEY)
CertSet == Truthy(envCall.env.VITE_DEV_SERVER_CERT)
BothFilesExist ==
    /\ envCall.env.VITE_DEV_SERVER_KEY \in CertFiles
    /\ envCall.env.VITE_DEV_SERVER_CERT \in CertFiles

\* the APP_URL values of EnvAppUrls that are URLs with a host, and that host
AppUrlHost ==
    CASE envCall.env.APP_URL = <<"http", "://", "app.test">> -> <<"app.test">>
      [] envCall.env.APP_URL = <<"https", "://", "app.test", ":", "8000">> ->
            <<"app.test", ":", "8000">>
      [] envCall.env.APP_URL = <<"https", "://", "app.test", ":", "443">> -> <<"app.test">>
      [] OTHER -> <<>>

\* C11: resolveEnvironmentServerConfig returns no override when neither TLS variable is
\* set, throws when exactly one is set or when a path does not exist, and returns host,
\* hmr.host and https only when both are set, both files exist and APP_URL has a host
C11_TlsBothOrNeither ==
    EnvReturned =>
        LET r == envCall.result
        IN  /\ (~KeySet /\ ~CertSet) => r = NoServerConfig
            /\ (KeySet # CertSet) => r.threw
            /\ ((KeySet \/ CertSet) /\ ~BothFilesExist) => r.threw
            /\ r.present =>
                  /\ KeySet /\ CertSet /\ BothFilesExist
                  /\ AppUrlHost # <<>>
                  /\ r.host = AppUrlHost /\ r.hmrHost = AppUrlHost
                  /\ r.https = <<"{", "key.pem", ",", "cert.pem", "}">>
            /\ (KeySet /\ CertSet /\ BothFilesExist /\ AppUrlHost = <<>>) => r.threw
            /\ r.threw => ~r.present

\* the key is set and the certificate is not: the call has thrown
C11_Witness ==
    /\ EnvReturned
    /\ envCall.env.VITE_DEV_SERVER_KEY = <<"key.pem">>
    /\ envCall.env.VITE_DEV_SERVER_CERT = Undefined
    /\ envCall.result.threw

(***************************************************************************)
(* Several plugin instances in one process: SpecMulti runs the lifecycle   *)
(* with two instances of the plugin, serving, with one http server         *)
(***************************************************************************)
InitMulti ==
    /\ LifecycleInit({1, 2})
    /\ command = "serve"
    /\ hasHttpServer
    /\ appUrlEnv = Undefined
    /\ \A i \in plugins : pluginConfig[i].transformOnServe = "identity"
    /\ urlCall = NoCall
    /\ configCall = NoCall
    /\ normCall = NoCall
    /\ envCall = NoCall

\* the hooks and events that register handlers, write files and end the process;
\* transform calls and requests change neither and are left to Spec
NextMulti ==
    \/ \E i \in plugins : Config(i)
    \/ \E i \in plugins : ConfigResolved(i)
    \/ \E i \in plugins : ConfigureServer(i)
    \/ Listening
    \/ Exit
    \/ \E sig \in Signals : Signal(sig)

SpecMulti == InitMulti /\ [][NextMulti]_vars

\* C13: whatever number of configureServer calls have run, on one instance or on both,
\* the process holds at most one 'exit' handler of the plugin and at most one handler
\* of the plugin for each of SIGINT, SIGTERM and SIGHUP.
C13_HandlersRegisteredAtMostOnce ==
    /\ Len(exitHandlers) <= 1
    /\ \A s \in Signals : signalHandlers[s] <= 1
    /\ exitHandlersBound <=> Len(exitHandlers) = 1
    /\ \A s \in Signals : signalHandlers[s] = Len(exitHandlers)

\* configureServer has run on both instances, more than once on one of them
C13_Witness ==
    /\ plugins = {1, 2}
    /\ \A i \in plugins : configureCalls[i] > 0
    /\ \E i \in plugins : configureCalls[i] > 1
    /\ Len(exitHandlers) = 1

(***************************************************************************)
(* resolveDevServerUrl on the server config that the config hook returns   *)
(* under an environment TLS override: SpecEnvUrl                           *)
(***************************************************************************)
\* both TLS files exist and APP_URL is a URL with a host, with or without a port
EnvUrlEnvs ==
    { env \in Envs :
          /\ env.VITE_DEV_SERVER_KEY = <<"key.pem">>
          /\ env.VITE_DEV_SERVER_CERT = <<"cert.pem">>
          /\ Truthy(resolveHostFromEnv(env)) }

\* user configs that set at most server.host and server.hmr
EnvUrlUsers ==
    { user \in UserConfigs :
          /\ user.base = Undefined /\ user.publicDir = Undefined
          /\ user.manifest = Undefined /\ user.outDir = Undefined
          /\ user.input = Undefined /\ user.assetsInlineLimit = Undefined
          /\ user.origin = Undefined /\ user.https = Undefined
          /\ user.alias = Undefined }

\* server.config.server once Vite has merged what the config hook returns
EnvUrlServers ==
    { LET returned == config(user, "serve", env, ConfigPluginConfig).server
      IN  ServerConfig(returned.hmr, returned.https, returned.host) :
          user \in EnvUrlUsers, env \in EnvUrlEnvs }

InitEnvUrl ==
    /\ LifecycleIdle
    /\ urlCall \in [phase : {"ready"}, address : UrlAddresses, server : EnvUrlServers,
                     result : {Undefined}]
    /\ configCall = NoCall
    /\ normCall = NoCall
    /\ envCall = NoCall

SpecEnvUrl == InitEnvUrl /\ [][NextUrl]_vars

\* one host: a name, or an address in brackets
HostShaped(host) ==
    \/ Len(host) = 1 /\ host[1] \notin {":", "://", "[", "]"}
    \/ Len(host) = 3 /\ host[1] = "[" /\ host[3] = "]" /\ host[2] \notin {":", "://", "[", "]"}

\* the exact shape protocol://host:port
WellShaped(url) ==
    /\ Len(url) >= 5
    /\ url[1] \in {"http", "https"}
    /\ url[2] = "://"
    /\ HostShaped(SubSeq(url, 3, Len(url) - 2))
    /\ url[Len(url) - 1] = ":"
    /\ url[Len(url)] \notin {":", "://", "[", "]"}

\* C16: every URL that resolveDevServerUrl returns for the server config derived from
\* the environment (APP_URL with or without a port) has the shape protocol://host:port
\* with protocol http or https, one host and one port.
C16_DevServerUrlWellShaped ==
    urlCall.phase = "done" => WellShaped(urlCall.result)

\* C20: when the process has ended, by a normal exit or by SIGINT, SIGTERM or SIGHUP
\* after configureServer has run, no hot file that one of its instances has written
\* is left.
C20_NoHotFileSurvivesTermination ==
    (proc = "terminated" /\ exitHandlersBound) =>
        \A i \in plugins : hotWrites[i] > 0 => files[pluginConfig[i].hotFile] = NoFile

====
